---- MODULE Spec2Model ----
(***************************************************************************)
(* Model of the Diagnostic-Tool session: the source registry               *)
(* (src/ocr_handler/source_manager.py) with the pointer to the record      *)
(* under review and the wall clock it stamps records with, and the         *)
(* workflow of src/app.py around it: the extraction runs that fill the     *)
(* registry, the review dialog, the diagnosis and the chat.                *)
(*                                                                         *)
(* Spec is the registry under arbitrary calls of its operations;           *)
(* ExtractSpec, ReviewSpec and ChatSpec are the button handlers of one     *)
(* part of the page each, over the same session state.                     *)
(*                                                                         *)
(* Text is modelled as a sequence of one-character strings, so that        *)
(* str.split(), str.upper() and "\n".join() are computed, not assumed.     *)
(***************************************************************************)
EXTENDS Integers, Sequences, FiniteSets, TLC

VARIABLES
    sources,      \* st.session_state.sources: the ordered list of records
    review_mode,  \* st.session_state.review_mode: None or the id under review
    now,          \* the wall clock read by datetime.now(), in whole seconds
    lastOp,       \* history: the name of the operation or handler run last
    audio_files_ready,   \* st.session_state.audio_files_ready
    lastRun,             \* history: the files and the services' outcomes of
                         \* the last extraction run
    initial_diagnosis,   \* st.session_state.initial_diagnosis
    final_diagnosis,     \* st.session_state.final_diagnosis
    diagnosis_input,     \* history: what the diagnosis adapter was last given
    chat_history,        \* st.session_state.chat_history
    chat_modifications,  \* st.session_state.chat_modifications
    show_chat,           \* st.session_state.show_chat
    ready_for_download   \* st.session_state.ready_for_download

\* The session state outside the registry.
workflow == <<audio_files_ready, lastRun, initial_diagnosis, final_diagnosis,
              diagnosis_input, chat_history, chat_modifications, show_chat,
              ready_for_download>>

vars == <<sources, review_mode, now, lastOp, workflow>>

\* ------------------------------------------------------------------ bounds

\* The registry holds at most MaxSources records at a time.
MaxSources == 2

\* The clock runs from 0 to MaxTime seconds.
MaxTime == 1

\* The extraction runs fill the registry up to MaxRecords records.
MaxRecords == 3

\* ------------------------------------------------------------------- text

\* Python's None, and a value that is present: an optional value is a
\* sequence of no or one element.
None == <<>>
Some(v) == <<v>>

\* datetime.now().strftime("%Y-%m-%d %H:%M:%S"): the clock to the second.
Timestamp(t) == Some(t)

NL == "\n"

Whitespace == {" ", "\n", "\t"}

LowerCase == <<"a", "b", "c", "d", "e", "f", "g", "h", "i", "j", "k", "l", "m",
               "n", "o", "p", "q", "r", "s", "t", "u", "v", "w", "x", "y", "z">>

UpperCase == <<"A", "B", "C", "D", "E", "F", "G", "H", "I", "J", "K", "L", "M",
               "N", "O", "P", "Q", "R", "S", "T", "U", "V", "W", "X", "Y", "Z">>

\* str.upper() on one character: a lower-case letter maps to its capital,
\* every other character to itself.
UpperChar(c) ==
    IF \E i \in 1..Len(LowerCase) : LowerCase[i] = c
    THEN UpperCase[CHOOSE i \in 1..Len(LowerCase) : LowerCase[i] = c]
    ELSE c

\* str.upper()
Upper(text) == [i \in 1..Len(text) |-> UpperChar(text[i])]

\* len(text.split()): the number of maximal runs of non-whitespace.
WordCount(text) ==
    Cardinality({i \in 1..Len(text) :
        /\ text[i] \notin Whitespace
        /\ (i = 1 \/ text[i - 1] \in Whitespace)})

\* sep.join(parts)
RECURSIVE Join(_, _)
Join(parts, sep) ==
    IF Len(parts) = 0 THEN <<>>
    ELSE IF Len(parts) = 1 THEN parts[1]
    ELSE parts[1] \o sep \o Join(Tail(parts), sep)

\* '=' * 60
RuleLen == 60
Rule == [i \in 1..RuleLen |-> "="]

\* ----------------------------------------------------------------- inputs

\* What the callers pass to add_source: the type, the file name, the text
\* the extraction produced and the metadata bag. One extraction produced
\* two words, the other no text at all.
Inputs ==
    { [type |-> <<"a", "u", "d", "i", "o">>,
       filename |-> <<"v", ".", "m", "p", "3">>,
       raw_text |-> <<"x", " ", "y">>,
       metadata |-> "chunk"],
      [type |-> <<"o", "c", "r">>,
       filename |-> <<"s", ".", "p", "n", "g">>,
       raw_text |-> <<>>,
       metadata |-> "size"] }

\* What the user types into the review editor.
EditTexts == { <<" ", "z", "\n">> }

\* The ids a caller may pass: those of listed records and one of no record.
Ids == 0..MaxSources

\* --------------------------------------------------------------- registry

\* Mutant of add_source: an empty raw_text is rejected and nothing is
\* appended.
add_source_rejects_empty(srcs, source_type, filename, raw_text, metadata, ts) ==
    IF raw_text = <<>> THEN srcs
    ELSE Append(srcs,
        [id |-> Len(srcs),
         type |-> source_type,
         filename |-> filename,
         raw_text |-> raw_text,
         edited_text |-> raw_text,
         status |-> "pending",
         created_at |-> ts,
         confirmed_at |-> None,
         metadata |-> metadata,
         word_count |-> WordCount(raw_text)])

\* source_manager.py: add_source
add_source(srcs, source_type, filename, raw_text, metadata, ts) ==
    Append(srcs,
        [id |-> Len(srcs),
         type |-> source_type,
         filename |-> filename,
         raw_text |-> raw_text,
         edited_text |-> raw_text,
         status |-> "pending",
         created_at |-> ts,
         confirmed_at |-> None,
         metadata |-> metadata,
         word_count |-> IF raw_text # <<>> THEN WordCount(raw_text) ELSE 0])

\* The position of the first record with this id, 0 when there is none:
\* where the `for source in sources: if source["id"] == source_id` loops stop.
FirstIndex(srcs, source_id) ==
    IF \E i \in 1..Len(srcs) : srcs[i].id = source_id
    THEN CHOOSE i \in 1..Len(srcs) :
            /\ srcs[i].id = source_id
            /\ \A j \in 1..(i - 1) : srcs[j].id # source_id
    ELSE 0

\* source_manager.py: get_source_by_id
get_source_by_id(srcs, source_id) ==
    IF FirstIndex(srcs, source_id) = 0 THEN None
    ELSE Some(srcs[FirstIndex(srcs, source_id)])

\* Mutant of update_source_text: the edit is stored, word_count is not
\* recomputed.
update_source_text_stale_count(srcs, source_id, new_text) ==
    IF FirstIndex(srcs, source_id) = 0 THEN srcs
    ELSE [srcs EXCEPT ![FirstIndex(srcs, source_id)] =
            [@ EXCEPT !.edited_text = new_text]]

\* Mutant of update_source_text: an edit sends the record back to review,
\* its status becomes "pending" again.
update_source_text_resets_status(srcs, source_id, new_text) ==
    IF FirstIndex(srcs, source_id) = 0 THEN srcs
    ELSE [srcs EXCEPT ![FirstIndex(srcs, source_id)] =
            [@ EXCEPT !.edited_text = new_text,
                      !.word_count = WordCount(new_text),
                      !.status = "pending"]]

\* Mutant of update_source_text: the edit overwrites the extracted text too.
update_source_text_overwrites_raw(srcs, source_id, new_text) ==
    IF FirstIndex(srcs, source_id) = 0 THEN srcs
    ELSE [srcs EXCEPT ![FirstIndex(srcs, source_id)] =
            [@ EXCEPT !.raw_text = new_text,
                      !.edited_text = new_text,
                      !.word_count = WordCount(new_text)]]

\* source_manager.py: update_source_text
update_source_text(srcs, source_id, new_text) ==
    IF FirstIndex(srcs, source_id) = 0 THEN srcs
    ELSE [srcs EXCEPT ![FirstIndex(srcs, source_id)] =
            [@ EXCEPT !.edited_text = new_text,
                      !.word_count = WordCount(new_text)]]

\* source_manager.py: confirm_source
confirm_source(srcs, source_id, ts) ==
    IF FirstIndex(srcs, source_id) = 0 THEN srcs
    ELSE [srcs EXCEPT ![FirstIndex(srcs, source_id)] =
            [@ EXCEPT !.status = "confirmed", !.confirmed_at = ts]]

\* Mutant of discard_source: the record is kept and marked "discarded"
\* (a tombstone) instead of being removed.
discard_source_tombstone(srcs, source_id) ==
    [i \in 1..Len(srcs) |->
        IF srcs[i].id = source_id
        THEN [srcs[i] EXCEPT !.status = "discarded"]
        ELSE srcs[i]]

\* source_manager.py: discard_source
discard_source(srcs, source_id) ==
    SelectSeq(srcs, LAMBDA s : s.id # source_id)

\* source_manager.py: get_all_sources
get_all_sources(srcs) == srcs

\* source_manager.py: get_pending_sources
get_pending_sources(srcs) ==
    SelectSeq(srcs, LAMBDA s : s.status = "pending")

\* Mutant of get_confirmed_sources: the status filter is missing.
get_confirmed_sources_unfiltered(srcs) == srcs

\* source_manager.py: get_confirmed_sources
get_confirmed_sources(srcs) ==
    SelectSeq(srcs, LAMBDA s : s.status = "confirmed")

\* Mutant of all_sources_confirmed: the empty-registry test is missing, so
\* all() over no records answers true.
all_sources_confirmed_no_empty_test(srcs) ==
    \A i \in 1..Len(srcs) : srcs[i].status = "confirmed"

\* source_manager.py: all_sources_confirmed
all_sources_confirmed(srcs) ==
    IF Len(srcs) = 0 THEN FALSE
    ELSE \A i \in 1..Len(srcs) : srcs[i].status = "confirmed"

\* Mutant of bulk_confirm_all: the test for "pending" is missing, so every
\* record is stamped again.
bulk_confirm_all_restamps(srcs, ts) ==
    [i \in 1..Len(srcs) |->
        [srcs[i] EXCEPT !.status = "confirmed", !.confirmed_at = ts]]

\* Mutant of bulk_confirm_all: the loop stops after the first pending record.
bulk_confirm_all_first_only(srcs, ts) ==
    [i \in 1..Len(srcs) |->
        IF srcs[i].status = "pending"
           /\ \A j \in 1..(i - 1) : srcs[j].status # "pending"
        THEN [srcs[i] EXCEPT !.status = "confirmed", !.confirmed_at = ts]
        ELSE srcs[i]]

\* source_manager.py: bulk_confirm_all
bulk_confirm_all(srcs, ts) ==
    [i \in 1..Len(srcs) |->
        IF srcs[i].status = "pending"
        THEN [srcs[i] EXCEPT !.status = "confirmed", !.confirmed_at = ts]
        ELSE srcs[i]]

\* "SOURCE: "
SourceLabel == <<"S", "O", "U", "R", "C", "E", ":", " ">>

\* The five strings get_combined_text appends for one record.
SourceBlock(source) ==
    << <<NL>> \o Rule,
       SourceLabel \o source.filename \o <<" ", "(">> \o Upper(source.type)
                   \o <<")">>,
       Rule \o <<NL>>,
       source.edited_text,
       <<NL>> >>

\* The list `combined` after the loop over the records `confirmed`.
RECURSIVE CombinedParts(_)
CombinedParts(confirmed) ==
    IF Len(confirmed) = 0 THEN <<>>
    ELSE SourceBlock(Head(confirmed)) \o CombinedParts(Tail(confirmed))

\* source_manager.py: get_combined_text
get_combined_text(srcs) ==
    IF Len(get_confirmed_sources(srcs)) = 0 THEN <<>>
    ELSE Join(CombinedParts(get_confirmed_sources(srcs)), <<NL>>)

\* sum(s['word_count'] for s in records)
RECURSIVE SumWordCount(_)
SumWordCount(records) ==
    IF Len(records) = 0 THEN 0
    ELSE Head(records).word_count + SumWordCount(Tail(records))

\* len([s for s in records if s['type'] == source_type])
CountType(records, source_type) ==
    Len(SelectSeq(records, LAMBDA s : s.type = source_type))

\* Mutant of get_source_summary: total_words sums over every record, the
\* pending ones included.
get_source_summary_counts_pending(srcs) ==
    [total_sources |-> Len(srcs),
     confirmed |-> Len(get_confirmed_sources(srcs)),
     pending |-> Len(get_pending_sources(srcs)),
     total_words |-> SumWordCount(srcs),
     by_type |->
        [ocr |-> CountType(get_confirmed_sources(srcs), <<"o", "c", "r">>),
         audio |-> CountType(get_confirmed_sources(srcs),
                             <<"a", "u", "d", "i", "o">>),
         manual |-> CountType(get_confirmed_sources(srcs),
                              <<"m", "a", "n", "u", "a", "l">>)]]

\* source_manager.py: get_source_summary
get_source_summary(srcs) ==
    [total_sources |-> Len(srcs),
     confirmed |-> Len(get_confirmed_sources(srcs)),
     pending |-> Len(get_pending_sources(srcs)),
     total_words |-> SumWordCount(get_confirmed_sources(srcs)),
     by_type |->
        [ocr |-> CountType(get_confirmed_sources(srcs), <<"o", "c", "r">>),
         audio |-> CountType(get_confirmed_sources(srcs),
                             <<"a", "u", "d", "i", "o">>),
         manual |-> CountType(get_confirmed_sources(srcs),
                              <<"m", "a", "n", "u", "a", "l">>)]]

\* ------------------------------------------------------------- extraction

\* "audio" and "ocr", the types the extraction handlers pass to add_source.
AudioType == <<"a", "u", "d", "i", "o">>
OcrType == <<"o", "c", "r">>

\* Mutant of Truthy: only None is false, the empty text is true.
Truthy_not_none(result) == result # None

\* Python's truth test on an optional text (`if transcript:`): None is false
\* and so is the empty text.
Truthy(result) == result # None /\ result[1] # <<>>

\* The metadata bag a handler passes to add_source; a key a handler does not
\* set is None.
Metadata(chunk, file_size_kb, word_count) ==
    [chunk |-> chunk, file_size_kb |-> file_size_kb, word_count |-> word_count]

\* Two audio files on disk: their name, their size in bytes and the duration
\* in whole seconds that ffmpeg.probe reports. One is below the 20 MB
\* threshold, the other above it and 25 minutes long.
SmallAudio ==
    [name |-> <<"v", ".", "m", "p", "3">>,
     size |-> 5 * 1024 * 1024,
     duration |-> 300]
LargeAudio ==
    [name |-> <<"w", ".", "m", "p", "3">>,
     size |-> 30 * 1024 * 1024,
     duration |-> 1500]
AudioFiles == {SmallAudio, LargeAudio}

\* Two images in the document uploader.
ImageS == [name |-> <<"s", ".", "p", "n", "g">>, size |-> 2048, duration |-> 0]
ImageT == [name |-> <<"t", ".", "p", "n", "g">>, size |-> 4096, duration |-> 0]

\* What the user may have selected in the document uploader when the OCR
\* button is pressed.
OcrSelections == {<<ImageS>>, <<ImageS, ImageT>>}

\* What the speech service says and what the vision service reads.
Speech == <<"x", " ", "y">>
Scan == <<"p">>

\* The outcome of one call of the speech service: it raises, it returns no
\* text, or it returns text.
WhisperOutcomes ==
    {[raised |-> TRUE, text |-> <<>>],
     [raised |-> FALSE, text |-> <<>>],
     [raised |-> FALSE, text |-> Speech]}

\* audio_handler.py: transcribe_audio. Every exception is caught and None
\* returned; otherwise the service's text.
transcribe_audio(whisper) ==
    IF whisper.raised THEN None ELSE Some(whisper.text)

\* The outcome of processing one segment of a large file: the ffmpeg run
\* that cuts the segment raises, or it succeeds and the speech service is
\* called, which raises or returns text.
SegmentOutcomes ==
    {[ffmpeg_ok |-> FALSE, whisper |-> [raised |-> TRUE, text |-> <<>>]],
     [ffmpeg_ok |-> TRUE, whisper |-> [raised |-> TRUE, text |-> <<>>]],
     [ffmpeg_ok |-> TRUE, whisper |-> [raised |-> FALSE, text |-> Speech]]}

\* The outcome of processing a file below the threshold: no ffmpeg run, one
\* call of the speech service.
SmallFileOutcomes == {[ffmpeg_ok |-> TRUE, whisper |-> w] : w \in WhisperOutcomes}

\* The outcome of one call of the vision service: the request raises (HTTP
\* error, timeout, anything else), or the service returns text, which may be
\* empty.
VisionOutcomes ==
    {[raised |-> TRUE, text |-> <<>>],
     [raised |-> FALSE, text |-> <<>>],
     [raised |-> FALSE, text |-> Scan]}

\* size_mb > 20, with size_mb = size / 1024 / 1024
oversized(file) == file.size > 20 * 1024 * 1024

\* chunk_duration = 600  # 10min
chunk_duration == 600

\* math.ceil(a / b) for whole a >= 0 and b > 0
Ceil(a, b) == IF a % b = 0 THEN a \div b ELSE (a \div b) + 1

\* num_chunks = math.ceil(duration / chunk_duration)
num_chunks(duration) == Ceil(duration, chunk_duration)

Digits == <<"0", "1", "2", "3", "4", "5", "6", "7", "8", "9">>

\* str(n) for n >= 0
RECURSIVE Decimal(_)
Decimal(n) ==
    IF n < 10 THEN <<Digits[n + 1]>>
    ELSE Decimal(n \div 10) \o <<Digits[(n % 10) + 1]>>

\* f"{n:02d}"
ZeroPad2(n) == IF n < 10 THEN <<"0">> \o Decimal(n) ELSE Decimal(n)

\* chunk_name = f"{file_info['name']}_chunk{i+1:02d}"
chunk_name(name, i) ==
    name \o <<"_", "c", "h", "u", "n", "k">> \o ZeroPad2(i + 1)

\* any(s['filename'] == filename for s in get_all_sources())
filename_listed(srcs, filename) ==
    \E k \in 1..Len(srcs) : srcs[k].filename = filename

\* The calls a Transcribe run would make: <<idx, 0>> for the file at
\* position idx when it is below the threshold, <<idx, i>> for each segment
\* i of a large file that is not listed yet.
TranscribeItems(srcs, ready) ==
    UNION {
        IF oversized(ready[idx])
        THEN {<<idx, i>> : i \in
                {j \in 0..(num_chunks(ready[idx].duration) - 1) :
                    ~filename_listed(srcs, chunk_name(ready[idx].name, j))}}
        ELSE {<<idx, 0>>}
        : idx \in 1..Len(ready)}

\* item a comes before item b in a Transcribe run.
Before(a, b) == a[1] < b[1] \/ (a[1] = b[1] /\ a[2] < b[2])

\* What a Transcribe run may meet: an outcome for each call it would make.
\* (A call the run does not get to, because an ffmpeg run before it raised,
\* still has the outcome it would have had.)
TranscribeOutcomes(srcs, ready) ==
    LET items == TranscribeItems(srcs, ready)
        segments == {item \in items : oversized(ready[item[1]])}
    IN  {[item \in items |->
            IF item \in segments THEN a[item] ELSE b[item]] :
            a \in [segments -> SegmentOutcomes],
            b \in [items \ segments -> SmallFileOutcomes]}

\* app.py 153-178: the loop over the segments of one large file, from
\* segment i on. run holds the registry and whether an exception has left
\* the handler.
RECURSIVE transcribe_chunks(_, _, _, _, _, _)
transcribe_chunks(run, file, idx, i, oc, ts) ==
    IF run.raised \/ i >= num_chunks(file.duration) THEN run
    ELSE IF filename_listed(run.sources, chunk_name(file.name, i))
    THEN transcribe_chunks(run, file, idx, i + 1, oc, ts)
    ELSE IF ~oc[<<idx, i>>].ffmpeg_ok THEN [run EXCEPT !.raised = TRUE]
    ELSE transcribe_chunks(
            [run EXCEPT !.sources =
                IF Truthy(transcribe_audio(oc[<<idx, i>>].whisper))
                THEN add_source(@, AudioType, chunk_name(file.name, i),
                                transcribe_audio(oc[<<idx, i>>].whisper)[1],
                                Metadata(Some(i + 1), None, None), ts)
                ELSE @],
            file, idx, i + 1, oc, ts)

\* app.py 140-187: the body of the loop over audio_files_ready for one file.
transcribe_file(run, file, idx, oc, ts) ==
    IF run.raised THEN run
    ELSE IF oversized(file) THEN transcribe_chunks(run, file, idx, 0, oc, ts)
    ELSE [run EXCEPT !.sources =
            IF Truthy(transcribe_audio(oc[<<idx, 0>>].whisper))
            THEN add_source(@, AudioType, file.name,
                            transcribe_audio(oc[<<idx, 0>>].whisper)[1],
                            Metadata(None, None, None), ts)
            ELSE @]

\* app.py 140: for idx, file_info in enumerate(audio_files_ready)
RECURSIVE transcribe_files(_, _, _, _, _)
transcribe_files(run, ready, idx, oc, ts) ==
    IF idx > Len(ready) THEN run
    ELSE transcribe_files(transcribe_file(run, ready[idx], idx, oc, ts),
                          ready, idx + 1, oc, ts)

\* app.py 133-190: the Transcribe handler; the registry it leaves.
transcribe_ready(srcs, ready, oc, ts) ==
    transcribe_files([sources |-> srcs, raised |-> FALSE],
                     ready, 1, oc, ts).sources

\* The error text of a failed OCR result.
OcrError == <<"e", "r", "r", "o", "r">>

\* ocr_handler.py: extract_text_from_image. Every exception is caught and a
\* result with status "failed" returned.
extract_text_from_image(image_file, vision) ==
    IF vision.raised
    THEN [filename |-> image_file.name,
          extracted_text |-> None,
          status |-> "failed",
          error |-> Some(OcrError),
          word_count |-> 0,
          file_size_kb |-> None]
    ELSE [filename |-> image_file.name,
          extracted_text |-> Some(vision.text),
          status |-> "success",
          error |-> None,
          word_count |-> WordCount(vision.text),
          file_size_kb |-> Some(image_file.size \div 1024)]

\* Mutant of batch_extract_from_images: the loop ends at the first file whose
\* extraction fails.
RECURSIVE batch_extract_from_images_stops_at_failure(_, _)
batch_extract_from_images_stops_at_failure(image_files, oc) ==
    IF Len(image_files) = 0 THEN <<>>
    ELSE IF oc[1].raised
    THEN <<extract_text_from_image(image_files[1], oc[1])>>
    ELSE <<extract_text_from_image(image_files[1], oc[1])>>
            \o batch_extract_from_images_stops_at_failure(
                    Tail(image_files), Tail(oc))

\* ocr_handler.py: batch_extract_from_images (mode "full"); oc[k] is the
\* vision service's outcome for the k-th file.
batch_extract_from_images(image_files, oc) ==
    [k \in 1..Len(image_files) |->
        extract_text_from_image(image_files[k], oc[k])]

\* files_to_process = [f for f in ocr_files if not any(...)]
files_to_process(srcs, ocr_files) ==
    SelectSeq(ocr_files, LAMBDA f : ~filename_listed(srcs, f.name))

\* Mutant of add_ocr_result: a failed result is recorded too, with no text.
add_ocr_result_records_failure(srcs, result, ts) ==
    add_source(srcs, OcrType, result.filename,
               IF result.status = "success" THEN result.extracted_text[1]
               ELSE <<>>,
               Metadata(None, Some(0), Some(result.word_count)), ts)

\* app.py 254-266: what the OCR handler does with one result.
add_ocr_result(srcs, result, ts) ==
    IF result.status = "success"
    THEN add_source(srcs, OcrType, result.filename, result.extracted_text[1],
                    Metadata(None, result.file_size_kb,
                             Some(result.word_count)), ts)
    ELSE srcs

\* app.py 253: for result in ocr_results
RECURSIVE add_ocr_results(_, _, _)
add_ocr_results(srcs, results, ts) ==
    IF Len(results) = 0 THEN srcs
    ELSE add_ocr_results(add_ocr_result(srcs, Head(results), ts),
                         Tail(results), ts)

\* Mutant of extract_documents: the run goes on without the API key and the
\* service reads every file.
extract_documents_without_key(srcs, ocr_files, key, oc, ts) ==
    add_ocr_results(
        srcs,
        batch_extract_from_images(
            files_to_process(srcs, ocr_files),
            IF key THEN oc
            ELSE [k \in 1..Len(files_to_process(srcs, ocr_files)) |->
                    [raised |-> FALSE, text |-> Scan]]),
        ts)

\* app.py 232-271: the OCR handler; the registry it leaves. Without the API
\* key the run stops before anything is extracted.
extract_documents(srcs, ocr_files, key, oc, ts) ==
    IF ~key THEN srcs
    ELSE add_ocr_results(
            srcs,
            batch_extract_from_images(files_to_process(srcs, ocr_files), oc),
            ts)

\* ---------------------------------------------------- review and diagnosis

\* Mutant of open_review_modal: review_mode is set to the following id.
open_review_modal_next_id(source_id) == Some(source_id + 1)

\* source_manager.py: open_review_modal; the new review_mode.
open_review_modal(source_id) == Some(source_id)

\* source_manager.py: close_review_modal; the new review_mode.
close_review_modal == None

\* app.py 342 and review_modal.py 22-26: the dialog is drawn, with its editor
\* and its buttons, when review_mode is set and names a listed record.
review_shown(srcs, mode) ==
    mode # None /\ get_source_by_id(srcs, mode[1]) # None

\* What the editor of the dialog may hold when a button is pressed: the
\* text it was opened with, or what the user has typed.
EditorTexts(source) == {source.edited_text} \cup EditTexts

\* Mutant of confirm_and_save: the record is confirmed, the edit is dropped.
confirm_and_save_drops_edit(srcs, source_id, edited_text, ts) ==
    confirm_source(srcs, source_id, ts)

\* review_modal.py 69-82: Confirm & Save, on the registry.
confirm_and_save(srcs, source_id, edited_text, ts) ==
    confirm_source(
        IF edited_text # get_source_by_id(srcs, source_id)[1].edited_text
        THEN update_source_text(srcs, source_id, edited_text)
        ELSE srcs,
        source_id, ts)

\* The report the completion service writes.
Report == <<"D", "x">>

\* The outcome of one call of the completion service for a diagnosis: it
\* raises, it returns no text, or it returns a report.
DiagnosisOutcomes ==
    {[raised |-> TRUE, text |-> <<>>],
     [raised |-> FALSE, text |-> <<>>],
     [raised |-> FALSE, text |-> Report]}

\* diagnosis_generation.py: generate_diagnosis_from_transcript. Every
\* exception is caught and None returned.
generate_diagnosis_from_transcript(gpt) ==
    IF gpt.raised THEN None ELSE Some(gpt.text)

\* Mutant of diagnosis_offered: the button is drawn although a diagnosis
\* has been generated.
diagnosis_offered_again(srcs, initial) ==
    Len(get_all_sources(srcs)) > 0 /\ all_sources_confirmed(srcs)

\* Mutant of diagnosis_offered: the test that all sources are confirmed is
\* missing.
diagnosis_offered_unconfirmed(srcs, initial) ==
    Len(get_all_sources(srcs)) > 0 /\ ~Truthy(initial)

\* app.py 348 and 366: the Generate Initial Diagnosis button is drawn.
diagnosis_offered(srcs, initial) ==
    /\ Len(get_all_sources(srcs)) > 0
    /\ all_sources_confirmed(srcs)
    /\ ~Truthy(initial)

\* ---------------------------------------------------------------- actions

\* No extraction run has happened yet.
NoRun == [handler |-> "none", key |-> TRUE, files |-> <<>>, oc |-> <<>>]

Init ==
    /\ sources = <<>>
    /\ review_mode = None
    /\ now = 0
    /\ lastOp = "init"
    /\ audio_files_ready = <<>>
    /\ lastRun = NoRun
    /\ initial_diagnosis = None
    /\ final_diagnosis = None
    /\ diagnosis_input = None
    /\ chat_history = <<>>
    /\ chat_modifications = <<>>
    /\ show_chat = FALSE
    /\ ready_for_download = FALSE

\* A second passes on the wall clock.
Tick ==
    /\ now < MaxTime
    /\ now' = now + 1
    /\ UNCHANGED <<sources, review_mode, lastOp, workflow>>

\* A call of add_source.
AddSource ==
    /\ Len(sources) < MaxSources
    /\ \E in \in Inputs :
        sources' = add_source(sources, in.type, in.filename, in.raw_text,
                              in.metadata, Timestamp(now))
    /\ lastOp' = "add_source"
    /\ UNCHANGED <<review_mode, now, workflow>>

\* A call of update_source_text.
UpdateSourceText ==
    \E source_id \in Ids, new_text \in EditTexts :
        /\ sources' = update_source_text(sources, source_id, new_text)
        /\ lastOp' = "update_source_text"
        /\ UNCHANGED <<review_mode, now, workflow>>

\* A call of confirm_source.
ConfirmSource ==
    \E source_id \in Ids :
        /\ sources' = confirm_source(sources, source_id, Timestamp(now))
        /\ lastOp' = "confirm_source"
        /\ UNCHANGED <<review_mode, now, workflow>>

\* A call of discard_source.
DiscardSource ==
    \E source_id \in Ids :
        /\ sources' = discard_source(sources, source_id)
        /\ lastOp' = "discard_source"
        /\ UNCHANGED <<review_mode, now, workflow>>

\* A call of bulk_confirm_all.
BulkConfirmAll ==
    /\ sources' = bulk_confirm_all(sources, Timestamp(now))
    /\ lastOp' = "bulk_confirm_all"
    /\ UNCHANGED <<review_mode, now, workflow>>

\* A call of clear_all_sources.
ClearAllSources ==
    /\ sources' = <<>>
    /\ review_mode' = None
    /\ lastOp' = "clear_all_sources"
    /\ UNCHANGED <<now, workflow>>

Next ==
    \/ Tick
    \/ AddSource
    \/ UpdateSourceText
    \/ ConfirmSource
    \/ DiscardSource
    \/ BulkConfirmAll
    \/ ClearAllSources

Spec == Init /\ [][Next]_vars

\* ------------------------------------------------- the extraction handlers

\* The parts of the session state outside the registry.
report == <<initial_diagnosis, final_diagnosis, diagnosis_input>>
chat == <<chat_history, chat_modifications>>
flags == <<show_chat, ready_for_download>>

\* app.py 111-126: audio files arrive in the uploader; one whose name is not
\* in audio_files_ready yet is saved and appended.
UploadAudio(files) ==
    /\ \E f \in files :
        /\ \A k \in 1..Len(audio_files_ready) :
                audio_files_ready[k].name # f.name
        /\ audio_files_ready' = Append(audio_files_ready, f)
    /\ lastOp' = "upload_audio"
    /\ UNCHANGED <<sources, review_mode, now, lastRun, report, chat, flags>>

\* app.py 133-190: the Transcribe button.
TranscribeReady ==
    /\ audio_files_ready # <<>>
    /\ \E oc \in TranscribeOutcomes(sources, audio_files_ready) :
        /\ sources' = transcribe_ready(sources, audio_files_ready, oc,
                                       Timestamp(now))
        /\ lastRun' = [handler |-> "transcribe", key |-> TRUE,
                       files |-> audio_files_ready, oc |-> oc]
    /\ Len(sources') <= MaxRecords
    /\ lastOp' = "transcribe"
    /\ UNCHANGED <<review_mode, now, audio_files_ready, report, chat, flags>>

\* app.py 232-271: the Extract Text from Documents button.
ExtractDocuments ==
    /\ \E ocr_files \in OcrSelections, key \in BOOLEAN :
        \E oc \in [1..(IF key
                       THEN Len(files_to_process(sources, ocr_files))
                       ELSE 0) -> VisionOutcomes] :
            /\ sources' = extract_documents(sources, ocr_files, key, oc,
                                            Timestamp(now))
            /\ lastRun' = [handler |-> "ocr", key |-> key,
                           files |-> ocr_files, oc |-> oc]
    /\ Len(sources') <= MaxRecords
    /\ lastOp' = "extract_documents"
    /\ UNCHANGED <<review_mode, now, audio_files_ready, report, chat, flags>>

ExtractNext ==
    \/ UploadAudio(AudioFiles)
    \/ TranscribeReady
    \/ ExtractDocuments

ExtractSpec == Init /\ [][ExtractNext]_vars

\* ----------------------------------------- the review and diagnosis handlers

\* app.py 329-331: the Review button of a listed record.
OpenReview ==
    /\ \E i \in 1..Len(sources) :
        review_mode' = open_review_modal(sources[i].id)
    /\ lastOp' = "open_review_modal"
    /\ UNCHANGED <<sources, now, workflow>>

\* review_modal.py 85-87: Cancel.
ReviewCancel ==
    /\ review_shown(sources, review_mode)
    /\ review_mode' = close_review_modal
    /\ lastOp' = "close_review_modal"
    /\ UNCHANGED <<sources, now, workflow>>

\* review_modal.py 69-82: Confirm & Save.
ReviewConfirmSave ==
    /\ review_shown(sources, review_mode)
    /\ \E edited_text \in
            EditorTexts(get_source_by_id(sources, review_mode[1])[1]) :
        sources' = confirm_and_save(sources, review_mode[1], edited_text,
                                    Timestamp(now))
    /\ review_mode' = close_review_modal
    /\ lastOp' = "review_confirm_save"
    /\ UNCHANGED <<now, workflow>>

\* review_modal.py 90-94: Discard.
ReviewDiscard ==
    /\ review_shown(sources, review_mode)
    /\ sources' = discard_source(sources, review_mode[1])
    /\ review_mode' = close_review_modal
    /\ lastOp' = "review_discard"
    /\ UNCHANGED <<now, workflow>>

\* app.py 334-337: the quick-confirm button of a pending record.
QuickConfirm ==
    /\ \E i \in 1..Len(sources) :
        /\ sources[i].status = "pending"
        /\ sources' = confirm_source(sources, sources[i].id, Timestamp(now))
    /\ lastOp' = "confirm_source"
    /\ UNCHANGED <<review_mode, now, workflow>>

\* app.py 293-301: Confirm All Sources, drawn while a record is pending.
ConfirmAllSources ==
    /\ get_source_summary(sources).pending > 0
    /\ sources' = bulk_confirm_all(sources, Timestamp(now))
    /\ lastOp' = "bulk_confirm_all"
    /\ UNCHANGED <<review_mode, now, workflow>>

\* app.py 348-388: Generate Initial Diagnosis. A result that is None or
\* empty stops the run with the session as it was.
GenerateDiagnosis ==
    /\ diagnosis_offered(sources, initial_diagnosis)
    /\ \E gpt \in DiagnosisOutcomes :
        /\ initial_diagnosis' =
                IF Truthy(generate_diagnosis_from_transcript(gpt))
                THEN generate_diagnosis_from_transcript(gpt)
                ELSE initial_diagnosis
        /\ final_diagnosis' =
                IF Truthy(generate_diagnosis_from_transcript(gpt))
                THEN generate_diagnosis_from_transcript(gpt)
                ELSE final_diagnosis
    /\ diagnosis_input' = Some(get_combined_text(sources))
    /\ lastOp' = "generate_diagnosis"
    /\ UNCHANGED <<sources, review_mode, now, audio_files_ready, lastRun,
                   chat, flags>>

ReviewNext ==
    \/ UploadAudio({SmallAudio})
    \/ (TranscribeReady /\ Len(sources') <= MaxSources)
    \/ OpenReview
    \/ ReviewCancel
    \/ ReviewConfirmSave
    \/ ReviewDiscard
    \/ QuickConfirm
    \/ ConfirmAllSources
    \/ GenerateDiagnosis

ReviewSpec == Init /\ [][ReviewNext]_vars

\* -------------------------------------------------------- the chat handlers

\* pat occurs in text at position p.
OccursAt(text, pat, p) ==
    /\ p >= 1
    /\ p + Len(pat) - 1 <= Len(text)
    /\ \A k \in 1..Len(pat) : text[p + k - 1] = pat[k]

\* pat, which is not empty, occurs somewhere in text.
Contains(text, pat) ==
    \E p \in 1..Len(text) : text[p] = pat[1] /\ OccursAt(text, pat, p)

\* The most chat turns (a doctor's message and the reply) of one history.
MaxExchanges == 2

\* chatbot_handler.py 25-37: the fixed greeting; its first sentence stands
\* for the whole text.
get_initial_greeting ==
    <<"T", "h", "e", " ", "i", "n", "i", "t", "i", "a", "l", " ", "d", "i",
      "a", "g", "n", "o", "s", "i", "s", " ", "i", "s", " ", "r", "e", "a",
      "d", "y", " ", "f", "o", "r", " ", "y", "o", "u", "r", " ", "r", "e",
      "v", "i", "e", "w", ".">>

\* chatbot_ui.py 138, 143 and 148: the prompts of the Quick Actions.
suggested_prompts ==
    {
     <<"E", "x", "p", "l", "a", "i", "n", " ", "t", "h", "e", " ", "r", "e",
       "a", "s", "o", "n", "i", "n", "g", " ", "b", "e", "h", "i", "n", "d",
       " ", "t", "h", "e", " ", "p", "r", "o", "v", "i", "s", "i", "o", "n",
       "a", "l", " ", "d", "i", "a", "g", "n", "o", "s", "i", "s">>,
     <<"I", "'", "d", " ", "l", "i", "k", "e", " ", "t", "o", " ", "c", "h",
       "a", "n", "g", "e", " ", "t", "h", "e", " ", "p", "r", "o", "v", "i",
       "s", "i", "o", "n", "a", "l", " ", "d", "i", "a", "g", "n", "o", "s",
       "i", "s">>,
     <<"W", "h", "a", "t", " ", "a", "d", "d", "i", "t", "i", "o", "n", "a",
       "l", " ", "t", "e", "s", "t", "s", " ", "s", "h", "o", "u", "l", "d",
       " ", "I", " ", "r", "e", "c", "o", "m", "m", "e", "n", "d", "?">>
    }

\* What the doctor types into the chat input.
UserInputs == {<<"h", "i">>}

\* The outcome of one call of the completion service for a chat turn: it
\* raises an exception whose message is text, it replies in plain words, or
\* it replies with a rewritten report.
ChatOutcomes ==
    {[raised |-> TRUE, text |-> <<"t", "i", "m", "e", "o", "u", "t">>],
     [raised |-> FALSE, text |-> <<"o", "k">>],
     [raised |-> FALSE, text |-> <<"A", "g", "e", ":", " ", "5">>]}

\* chatbot_handler.py 139-140: the text returned when the completion raised
\* the exception with message e. The first character of the source's text
\* is the cross mark U+274C, written X here.
chat_error_text(e) ==
    <<"X", " ", "E", "r", "r", "o", "r", " ", "g", "e", "n", "e", "r", "a",
      "t", "i", "n", "g", " ", "r", "e", "s", "p", "o", "n", "s", "e", ":",
      " ">>
    \o e \o
    <<"\n", "\n", "P", "l", "e", "a", "s", "e", " ", "t", "r", "y", " ",
      "r", "e", "p", "h", "r", "a", "s", "i", "n", "g", " ", "y", "o", "u",
      "r", " ", "q", "u", "e", "s", "t", "i", "o", "n", ".">>

\* chatbot_handler.py 68-140: generate_chat_response, as a function of the
\* completion service's outcome.
generate_chat_response(gpt) ==
    IF gpt.raised THEN chat_error_text(gpt.text) ELSE gpt.text

\* chatbot_handler.py 157.
markers ==
    {<<"D", "I", "A", "G", "N", "O", "S", "I", "S", ":">>,
     <<"M", "E", "D", "I", "C", "A", "T", "I", "O", "N", "S", ":">>,
     <<"N", "a", "m", "e", ":">>,
     <<"A", "g", "e", ":">>,
     <<"S", "P", "E", "C", "I", "A", "L", " ", "R", "I", "S", "K", "S">>}

\* Mutant of extract_diagnosis_update: every reply is taken as a report.
extract_diagnosis_update_any_reply(ai_response, current_diagnosis) ==
    Some(ai_response)

\* chatbot_handler.py 143-164: the reply itself when it holds a marker,
\* otherwise None.
extract_diagnosis_update(ai_response, current_diagnosis) ==
    IF \E marker \in markers : Contains(ai_response, marker)
    THEN Some(ai_response)
    ELSE None

\* Mutant of add_message: the message is put in front of the history.
add_message_in_front(history, role, content) ==
    <<[role |-> role, content |-> content, timestamp |-> None]>> \o history

\* chatbot_handler.py 40-53: the session has no 'timestamp', so the
\* message's timestamp is None.
add_message(history, role, content) ==
    Append(history, [role |-> role, content |-> content, timestamp |-> None])

\* chatbot_ui.py 114-118: drawing the chat puts the greeting into an empty
\* history.
render_chatbot(history) ==
    IF history = <<>>
    THEN add_message(history, "assistant", get_initial_greeting)
    ELSE history

\* chatbot_handler.py 167-178: apply_diagnosis_modification, on the pair of
\* final_diagnosis and chat_modifications.
apply_diagnosis_modification(session, modification_text) ==
    [final_diagnosis |-> Some(modification_text),
     chat_modifications |->
        Append(session.chat_modifications,
               [timestamp |-> None, modification |-> modification_text])]

\* chatbot_ui.py 155-189 and 192-217: one chat turn. The doctor's message
\* is added, the reply is generated, a reply that extract_diagnosis_update
\* returns replaces the report, and the reply is added as the assistant's
\* message.
chat_turn(session, user_input, gpt) ==
    LET ai_response == generate_chat_response(gpt)
        updated_diagnosis ==
            extract_diagnosis_update(ai_response, session.final_diagnosis)
        applied ==
            IF Truthy(updated_diagnosis)
            THEN apply_diagnosis_modification(session, updated_diagnosis[1])
            ELSE [final_diagnosis |-> session.final_diagnosis,
                  chat_modifications |-> session.chat_modifications]
    IN  [chat_history |->
            add_message(add_message(session.chat_history, "user", user_input),
                        "assistant", ai_response),
         final_diagnosis |-> applied.final_diagnosis,
         chat_modifications |-> applied.chat_modifications]

\* The session values a chat turn works on.
chat_session ==
    [chat_history |-> chat_history,
     final_diagnosis |-> final_diagnosis,
     chat_modifications |-> chat_modifications]

\* app.py 457: the chat is drawn.
chat_shown == show_chat /\ Truthy(initial_diagnosis) /\ ~ready_for_download

\* The doctor's messages of a history.
Exchanges(history) ==
    Cardinality({k \in 1..Len(history) : history[k].role = "user"})

\* app.py 442-444: Refine with AI; the rerun draws the chat.
OpenChat ==
    /\ Truthy(initial_diagnosis)
    /\ ~ready_for_download
    /\ ~show_chat
    /\ show_chat' = TRUE
    /\ chat_history' = render_chatbot(chat_history)
    /\ lastOp' = "open_chat"
    /\ UNCHANGED <<sources, review_mode, now, audio_files_ready, lastRun,
                   report, chat_modifications, ready_for_download>>

\* app.py 447-449: Finalize & Download.
FinalizeDownload ==
    /\ Truthy(initial_diagnosis)
    /\ ~ready_for_download
    /\ ~show_chat
    /\ ready_for_download' = TRUE
    /\ lastOp' = "finalize_download"
    /\ UNCHANGED <<sources, review_mode, now, audio_files_ready, lastRun,
                   report, chat, show_chat>>

\* The effect of a chat turn on the session.
ChatTurn(user_input) ==
    /\ chat_shown
    /\ Exchanges(chat_history) < MaxExchanges
    /\ \E gpt \in ChatOutcomes :
        LET after == chat_turn(chat_session, user_input, gpt)
        IN  /\ chat_history' = after.chat_history
            /\ final_diagnosis' = after.final_diagnosis
            /\ chat_modifications' = after.chat_modifications
    /\ UNCHANGED <<sources, review_mode, now, audio_files_ready, lastRun,
                   initial_diagnosis, diagnosis_input, flags>>

\* chatbot_ui.py 155-189: a message typed into the chat input.
ChatSend ==
    /\ \E user_input \in UserInputs : ChatTurn(user_input)
    /\ lastOp' = "chat_send"

\* chatbot_ui.py 132-150 and 192-217: a Quick Action, drawn while the
\* history holds at most the greeting; the rerun takes the prompt as the
\* doctor's message.
SuggestedPrompt ==
    /\ Len(chat_history) <= 1
    /\ \E default_prompt \in suggested_prompts : ChatTurn(default_prompt)
    /\ lastOp' = "suggested_prompt"

\* chatbot_ui.py 226-229: Clear Chat; the rerun draws the chat again.
ClearChat ==
    /\ chat_shown
    /\ chat_history' = render_chatbot(<<>>)
    /\ chat_modifications' = <<>>
    /\ lastOp' = "clear_chat"
    /\ UNCHANGED <<sources, review_mode, now, audio_files_ready, lastRun,
                   report, flags>>

\* Mutant of GenerateFinalReport: close_chat() is not called.
GenerateFinalReport_chat_left_open ==
    /\ show_chat /\ Truthy(initial_diagnosis) /\ ~ready_for_download
    /\ ready_for_download' = TRUE
    /\ lastOp' = "generate_final_report"
    /\ UNCHANGED <<sources, review_mode, now, audio_files_ready, lastRun,
                   report, chat, show_chat>>

\* chatbot_ui.py 237-247: Generate Final Report.
GenerateFinalReport ==
    /\ chat_shown
    /\ show_chat' = FALSE
    /\ ready_for_download' = TRUE
    /\ lastOp' = "generate_final_report"
    /\ UNCHANGED <<sources, review_mode, now, audio_files_ready, lastRun,
                   report, chat>>

\* app.py 553-556: Back to Edit Diagnosis; the rerun draws the chat.
BackToEdit ==
    /\ ready_for_download
    /\ Truthy(final_diagnosis)
    /\ ready_for_download' = FALSE
    /\ show_chat' = TRUE
    /\ chat_history' = render_chatbot(chat_history)
    /\ lastOp' = "back_to_edit"
    /\ UNCHANGED <<sources, review_mode, now, audio_files_ready, lastRun,
                   report, chat_modifications>>

ChatNext ==
    \/ UploadAudio({SmallAudio})
    \/ (TranscribeReady /\ Len(sources') <= MaxSources)
    \/ ConfirmAllSources
    \/ GenerateDiagnosis
    \/ OpenChat
    \/ FinalizeDownload
    \/ ChatSend
    \/ SuggestedPrompt
    \/ ClearChat
    \/ GenerateFinalReport
    \/ BackToEdit

ChatSpec == Init /\ [][ChatNext]_vars

\* ----------------------------------------------------------------- claims

\* The record positions, and those of the confirmed and the pending records.
Positions == 1..Len(sources)
ConfirmedPositions == {i \in Positions : sources[i].status = "confirmed"}
PendingPositions == {i \in Positions : sources[i].status = "pending"}

\* C1: all_sources_confirmed() is true exactly when the registry is non-empty
\* and no record in it has status "pending".
C1_AllConfirmedIffNoPending ==
    all_sources_confirmed(sources)
        <=> (Len(sources) > 0 /\ PendingPositions = {})

\* C1 witness: after confirmations a registry of two records is all confirmed.
C1_Witness ==
    /\ Len(sources) >= 2
    /\ all_sources_confirmed(sources)
    /\ lastOp \in {"confirm_source", "bulk_confirm_all"}

\* C2: no two records of the registry share an id (the id add_source returns
\* differs from every id it returned before).
C2_IdsUnique ==
    \A i, j \in Positions : i # j => sources[i].id # sources[j].id

\* The r-th smallest element of a set of numbers.
NthSmallest(S, r) ==
    CHOOSE p \in S : Cardinality({q \in S : q <= p}) = r

\* The upper-cased type a header is expected to show.
TypeLabel(type) ==
    IF type = <<"o", "c", "r">> THEN <<"O", "C", "R">>
    ELSE IF type = <<"a", "u", "d", "i", "o">> THEN <<"A", "U", "D", "I", "O">>
    ELSE <<"M", "A", "N", "U", "A", "L">>

\* What the combined text is expected to show for one record from its
\* "SOURCE: " label on: the header line, the closing rule, a blank line, the
\* edited text and the line end after it.
ExpectedFromLabel(source) ==
    SourceLabel \o source.filename \o <<" ", "(">> \o TypeLabel(source.type)
        \o <<")", NL>> \o Rule \o <<NL, NL>> \o source.edited_text \o <<NL>>

\* The length of the combined text expected for a set of record positions:
\* per record the opening rule line, the block from the label on and a line
\* end, and one joining line end between two blocks.
RECURSIVE ExpectedLength(_)
ExpectedLength(P) ==
    IF P = {} THEN 0
    ELSE LET i == CHOOSE k \in P : TRUE
         IN  (RuleLen + 2) + Len(ExpectedFromLabel(sources[i])) + 1
                + (IF P = {i} THEN 0 ELSE 1) + ExpectedLength(P \ {i})

\* C3: get_combined_text() is empty when no record is confirmed; otherwise it
\* holds exactly one header per confirmed record, the k-th header is that of
\* the k-th confirmed record in insertion order (file name and upper-cased
\* type between two rule lines) and is followed by that record's
\* edited_text; it holds nothing else, and no text of a pending record
\* occurs in it (unless a confirmed record's text contains the same text).
C3_CombinedTextOfConfirmed ==
    LET text == get_combined_text(sources)
        labels == {p \in 1..Len(text) :
                    text[p] = SourceLabel[1] /\ OccursAt(text, SourceLabel, p)}
    IN  /\ ConfirmedPositions = {} => text = <<>>
        /\ Cardinality(labels) = Cardinality(ConfirmedPositions)
        /\ \A i \in ConfirmedPositions :
            LET rank == Cardinality({j \in ConfirmedPositions : j <= i})
                p == NthSmallest(labels, rank)
            IN  /\ OccursAt(text, <<NL>> \o Rule \o <<NL>>, p - (RuleLen + 2))
                /\ OccursAt(text, ExpectedFromLabel(sources[i]), p)
        /\ Len(text) = ExpectedLength(ConfirmedPositions)
        /\ \A i \in PendingPositions :
            (/\ WordCount(sources[i].edited_text) > 0
             /\ \A j \in ConfirmedPositions :
                 ~Contains(sources[j].edited_text, sources[i].edited_text))
            => ~Contains(text, sources[i].edited_text)

\* C3 witness: a pending record with text precedes a confirmed, edited
\* record; the combined text holds the one block of the confirmed record.
C3_Witness ==
    /\ Len(sources) = 2
    /\ sources[1].status = "pending"
    /\ WordCount(sources[1].edited_text) = 2
    /\ sources[2].status = "confirmed"
    /\ sources[2].edited_text \in EditTexts
    /\ Len(get_combined_text(sources)) > 2 * RuleLen

\* C4: every record's word_count is the word count of its current
\* edited_text; update_source_text(id, t) leaves the record that
\* get_source_by_id(id) returns with the text t and the word count of t.
C4_WordCountOfEditedText ==
    /\ \A i \in Positions :
        sources[i].word_count = WordCount(sources[i].edited_text)
    /\ \A id \in Ids, t \in EditTexts :
        LET updated == get_source_by_id(update_source_text(sources, id, t), id)
        IN  updated # None
                => /\ updated[1].edited_text = t
                   /\ updated[1].word_count = WordCount(t)

\* C4 witness: an edit has left a record with a word count of one, after a
\* raw_text of two words.
C4_Witness ==
    /\ lastOp = "update_source_text"
    /\ \E i \in Positions :
        /\ sources[i].edited_text \in EditTexts
        /\ sources[i].word_count = 1
        /\ WordCount(sources[i].raw_text) = 2

\* A step that is a call of the registry operation op: the clock stands
\* still during a call and lastOp' names the operation.
Called(op) == lastOp' = op /\ now' = now

\* seq without its k-th element.
RemoveAt(seq, k) == SubSeq(seq, 1, k - 1) \o SubSeq(seq, k + 1, Len(seq))

\* C5: a bulk_confirm_all leaves every record that was already confirmed as
\* it was (its earlier confirmed_at included) and every record confirmed, and
\* a bulk_confirm_all that directly follows a bulk_confirm_all changes
\* nothing in the registry.
C5_BulkConfirmIdempotent ==
    [][Called("bulk_confirm_all") =>
        /\ Len(sources') = Len(sources)
        /\ \A i \in Positions :
            sources[i].status = "confirmed" => sources'[i] = sources[i]
        /\ \A i \in Positions : sources'[i].status = "confirmed"
        /\ lastOp = "bulk_confirm_all" => sources' = sources]_vars

\* C5 witness: bulk_confirm_all was the last call, made at second 1 or
\* later, and the registry holds a record confirmed at second 0 next to one
\* confirmed at second 1.
C5_Witness ==
    /\ lastOp = "bulk_confirm_all"
    /\ \E i, j \in Positions :
        /\ sources[i].confirmed_at = Timestamp(0)
        /\ sources[j].confirmed_at = Timestamp(1)

\* C6: confirm_source(id) on a record that is already confirmed leaves that
\* record unchanged, its confirmed_at included.
C6_ConfirmIdempotent ==
    [][\A id \in Ids :
        (/\ Called("confirm_source")
         /\ sources' = confirm_source(sources, id, Timestamp(now))
         /\ get_source_by_id(sources, id) # None
         /\ get_source_by_id(sources, id)[1].status = "confirmed")
        => get_source_by_id(sources', id) = get_source_by_id(sources, id)]_vars

\* A step that is a call of add_source with the arguments in.
AddedInput(in) ==
    /\ Called("add_source")
    /\ sources' = add_source(sources, in.type, in.filename, in.raw_text,
                             in.metadata, Timestamp(now))

\* C7 as stated: add_source with an empty raw_text appends no record and
\* leaves the registry unchanged.
C7_EmptyAddLeavesRegistry ==
    [][\A in \in Inputs :
        (AddedInput(in) /\ in.raw_text = <<>>) => sources' = sources]_vars

\* C7 as amended: add_source with an empty raw_text raises nothing and appends
\* one pending record with empty raw_text and edited_text and word_count 0,
\* leaving the records already present unchanged.
C7_EmptyAddAppendsEmptyRecord ==
    [][\A in \in Inputs :
        (AddedInput(in) /\ in.raw_text = <<>>)
        => /\ Len(sources') = Len(sources) + 1
           /\ SubSeq(sources', 1, Len(sources)) = sources
           /\ sources'[Len(sources')].raw_text = <<>>
           /\ sources'[Len(sources')].edited_text = <<>>
           /\ sources'[Len(sources')].word_count = 0
           /\ sources'[Len(sources')].status = "pending"
           /\ sources'[Len(sources')].confirmed_at = None]_vars

\* C7 witness: add_source was called with an empty raw_text on a registry
\* that held a record, and the registry now ends with the empty record.
C7_Witness ==
    /\ lastOp = "add_source"
    /\ Len(sources) = 2
    /\ sources[2].raw_text = <<>>
    /\ sources[2].word_count = 0
    /\ sources[2].status = "pending"

\* C8: discard_source(id) removes exactly one record, the one with that id,
\* and leaves every other record in place, unchanged and in order (or
\* changes nothing when no record has the id).
C8_DiscardRemovesOneRecord ==
    [][\A id \in Ids :
        (Called("discard_source") /\ sources' = discard_source(sources, id))
        => \/ /\ get_source_by_id(sources, id) = None
              /\ sources' = sources
           \/ \E k \in Positions :
                /\ sources[k].id = id
                /\ sources' = RemoveAt(sources, k)]_vars

\* C9: after discard_source(id) no record with that id is in
\* get_all_sources(), get_pending_sources() or get_confirmed_sources(), and
\* all_sources_confirmed() is true exactly when some record with another id
\* was there and every such record was confirmed.
C9_DiscardedAppearsNowhere ==
    [][\A id \in Ids :
        (Called("discard_source") /\ sources' = discard_source(sources, id))
        => /\ \A i \in 1..Len(get_all_sources(sources')) :
                get_all_sources(sources')[i].id # id
           /\ \A i \in 1..Len(get_pending_sources(sources')) :
                get_pending_sources(sources')[i].id # id
           /\ \A i \in 1..Len(get_confirmed_sources(sources')) :
                get_confirmed_sources(sources')[i].id # id
           /\ all_sources_confirmed(sources')
                <=> /\ \E i \in Positions : sources[i].id # id
                    /\ \A i \in Positions :
                        sources[i].id # id
                            => sources[i].status = "confirmed"]_vars

\* C9 witness: discard_source(0) removed the first record and left a
\* registry that is all confirmed.
C9_Witness ==
    /\ lastOp = "discard_source"
    /\ Len(sources) = 1
    /\ sources[1].id = 1
    /\ all_sources_confirmed(sources)

\* C10: after bulk_confirm_all() on a non-empty registry of n records the
\* summary reports total_sources = n, confirmed = n, pending = 0 and
\* all_sources_confirmed() is true; while none of n added records has been
\* confirmed the summary reports total_sources = n, confirmed = 0,
\* pending = n.
C10_SummaryAroundBulkConfirm ==
    /\ (lastOp = "bulk_confirm_all" /\ Len(sources) > 0)
        => /\ get_source_summary(sources).total_sources = Len(sources)
           /\ get_source_summary(sources).confirmed = Len(sources)
           /\ get_source_summary(sources).pending = 0
           /\ all_sources_confirmed(sources)
    /\ (Len(sources) > 0 /\ \A i \in Positions : sources[i].confirmed_at = None)
        => /\ get_source_summary(sources).total_sources = Len(sources)
           /\ get_source_summary(sources).confirmed = 0
           /\ get_source_summary(sources).pending = Len(sources)
           /\ ~all_sources_confirmed(sources)

\* C10 witness: the scenario's end, one audio and one OCR record confirmed
\* by a bulk_confirm_all.
C10_Witness ==
    /\ lastOp = "bulk_confirm_all"
    /\ Len(sources) = 2
    /\ sources[1].type = <<"a", "u", "d", "i", "o">>
    /\ sources[2].type = <<"o", "c", "r">>
    /\ sources[1].confirmed_at = sources[2].confirmed_at
    /\ get_source_summary(sources).confirmed = 2

\* The sum of word_count over the records at the positions P.
RECURSIVE WordsAt(_)
WordsAt(P) ==
    IF P = {} THEN 0
    ELSE LET i == CHOOSE k \in P : TRUE
         IN  sources[i].word_count + WordsAt(P \ {i})

\* C11: get_source_summary()['total_words'] is the sum of word_count over the
\* confirmed records only; editing a confirmed record replaces its share of
\* the total by the word count of the new text, editing a pending one leaves
\* the total alone, and discarding takes the discarded confirmed records'
\* shares out of the total.
C11_TotalWordsOfConfirmed ==
    LET total == get_source_summary(sources).total_words
    IN  /\ total = WordsAt(ConfirmedPositions)
        /\ \A id \in Ids, t \in EditTexts :
            LET k == FirstIndex(sources, id)
                after == get_source_summary(update_source_text(sources, id, t))
            IN  after.total_words =
                    IF k \in ConfirmedPositions
                    THEN total - sources[k].word_count + WordCount(t)
                    ELSE total
        /\ \A id \in Ids :
            get_source_summary(discard_source(sources, id)).total_words
                = total - WordsAt({i \in ConfirmedPositions : sources[i].id = id})

\* C11 witness: a confirmed record of one word stands next to a pending
\* record of two words, and the total is one.
C11_Witness ==
    /\ \E i \in ConfirmedPositions : sources[i].word_count = 1
    /\ \E i \in PendingPositions : sources[i].word_count = 2
    /\ get_source_summary(sources).total_words = 1

\* The records of seq at the positions K, in order.
Restrict(seq, K) == [r \in 1..Cardinality(K) |-> seq[NthSmallest(K, r)]]

\* C17: a record's status is "pending" or "confirmed"; no step takes a
\* confirmed record back to "pending": where no record leaves the registry
\* every confirmed record stays confirmed at its place and a new record
\* starts pending, and where records leave, those that remain are unchanged;
\* update_source_text changes no record's status.
C17_ConfirmedStaysConfirmed ==
    [][/\ \A i \in 1..Len(sources') :
            sources'[i].status \in {"pending", "confirmed"}
       /\ \/ /\ Len(sources') >= Len(sources)
             /\ \A i \in Positions :
                    sources[i].status = "confirmed"
                        => sources'[i].status = "confirmed"
             /\ \A i \in (Len(sources) + 1)..Len(sources') :
                    sources'[i].status = "pending"
          \/ /\ Len(sources') < Len(sources)
             /\ \E K \in SUBSET Positions : sources' = Restrict(sources, K)
       /\ Called("update_source_text")
            => /\ Len(sources') = Len(sources)
               /\ \A i \in Positions :
                    sources'[i].status = sources[i].status]_vars

\* C17 witness: update_source_text has edited a confirmed record, which is
\* still confirmed, and a pending record, which is still pending.
C17_Witness ==
    /\ lastOp = "update_source_text"
    /\ \E i \in ConfirmedPositions : sources[i].edited_text \in EditTexts
    /\ \E i \in PendingPositions : sources[i].edited_text \in EditTexts

\* The positions of the records a step has appended.
Appended == (Len(sources) + 1)..Len(sources')

\* The file name under which a Transcribe run records the call item.
ItemName(files, item) ==
    IF oversized(files[item[1]])
    THEN chunk_name(files[item[1]].name, item[2])
    ELSE files[item[1]].name

\* C13: a file that fails in its adapter does not end the batch. In a
\* Transcribe run in which no ffmpeg run raises, every call for which the
\* speech service returns text gets its record appended, whatever the
\* service did for the other calls; in an OCR run batch_extract_from_images
\* returns one result per file to process, in their order, failed or not,
\* and every file the vision service answers gets its record appended.
C13_BatchIsolatesFailures ==
    [][/\ Called("transcribe") =>
            ((\A item \in DOMAIN lastRun'.oc : lastRun'.oc[item].ffmpeg_ok)
                => \A item \in DOMAIN lastRun'.oc :
                    Truthy(transcribe_audio(lastRun'.oc[item].whisper))
                        => \E p \in Appended :
                            /\ sources'[p].filename
                                = ItemName(lastRun'.files, item)
                            /\ sources'[p].raw_text
                                = lastRun'.oc[item].whisper.text)
       /\ (Called("extract_documents") /\ lastRun'.key) =>
            LET todo == SelectSeq(lastRun'.files, LAMBDA f :
                            \A i \in Positions : sources[i].filename # f.name)
                results == batch_extract_from_images(todo, lastRun'.oc)
            IN  /\ Len(results) = Len(todo)
                /\ \A k \in 1..Len(todo) :
                    /\ results[k].filename = todo[k].name
                    /\ results[k].status = "failed" <=> lastRun'.oc[k].raised
                    /\ ~lastRun'.oc[k].raised
                        => \E p \in Appended :
                            /\ sources'[p].filename = todo[k].name
                            /\ sources'[p].raw_text = lastRun'.oc[k].text]_vars

\* C13 witness: a Transcribe run over two files in which the speech service
\* raised for the first file and the second file got its record.
C13_Witness ==
    /\ lastOp = "transcribe"
    /\ Len(lastRun.files) = 2
    /\ lastRun.oc[<<1, 0>>].whisper.raised
    /\ \E item \in DOMAIN lastRun.oc :
        /\ item[1] = 2
        /\ lastRun.oc[item].ffmpeg_ok
        /\ ~lastRun.oc[item].whisper.raised
        /\ \E p \in Positions :
            sources[p].filename = ItemName(lastRun.files, item)
    /\ \A p \in Positions : sources[p].filename # lastRun.files[1].name

\* ceil(d / 600): the least n with n * 600 >= d.
ExpectedSegments(d) ==
    CHOOSE n \in 0..d : n * 600 >= d /\ (n > 0 => (n - 1) * 600 < d)

\* C14: a large file of duration d is processed as ceil(d / 600) segments;
\* a Transcribe run removes no record, and each segment not listed before
\* whose own processing succeeds (its ffmpeg run and its transcription) has
\* its record afterwards, tagged with chunk index i + 1, whatever happened
\* to the other segments.
C14_SegmentsIndependent ==
    [][Called("transcribe") =>
        /\ SubSeq(sources', 1, Len(sources)) = sources
        /\ \A idx \in 1..Len(lastRun'.files) :
            oversized(lastRun'.files[idx]) =>
                \A i \in 0..(ExpectedSegments(lastRun'.files[idx].duration) - 1) :
                    \/ \E p \in Positions :
                        sources[p].filename
                            = chunk_name(lastRun'.files[idx].name, i)
                    \/ /\ <<idx, i>> \in DOMAIN lastRun'.oc
                       /\ (/\ lastRun'.oc[<<idx, i>>].ffmpeg_ok
                           /\ Truthy(transcribe_audio(
                                        lastRun'.oc[<<idx, i>>].whisper)))
                            => \E p \in Appended :
                                /\ sources'[p].metadata.chunk = Some(i + 1)
                                /\ sources'[p].raw_text
                                    = lastRun'.oc[<<idx, i>>].whisper.text]_vars

\* The calls of a Transcribe run that it got to and that returned text: no
\* ffmpeg run raised before or in them.
TranscribedItems(run) ==
    {item \in DOMAIN run.oc :
        /\ \A a \in DOMAIN run.oc :
            (a = item \/ Before(a, item)) => run.oc[a].ffmpeg_ok
        /\ Truthy(transcribe_audio(run.oc[item].whisper))}

\* C15: an extraction run changes no record that was there and appends
\* exactly one pending record per call that succeeded, in the order of the
\* calls: a transcription that raised or returned no text and an OCR result
\* with status "failed" leave no trace in the registry. (A transcription has
\* succeeded when the adapter returned text, an OCR when its result has
\* status "success".)
C15_RegistryHoldsSuccessesOnly ==
    [][/\ Called("transcribe") =>
            LET done == TranscribedItems(lastRun')
            IN  /\ SubSeq(sources', 1, Len(sources)) = sources
                /\ Len(sources') = Len(sources) + Cardinality(done)
                /\ \A item \in done :
                    LET p == Len(sources)
                             + Cardinality({a \in done : Before(a, item)}) + 1
                    IN  /\ sources'[p].filename
                            = ItemName(lastRun'.files, item)
                        /\ sources'[p].raw_text
                            = lastRun'.oc[item].whisper.text
                        /\ sources'[p].edited_text = sources'[p].raw_text
                        /\ sources'[p].status = "pending"
       /\ Called("extract_documents") =>
            LET todo == SelectSeq(lastRun'.files, LAMBDA f :
                            \A i \in Positions : sources[i].filename # f.name)
                done == {k \in DOMAIN lastRun'.oc : ~lastRun'.oc[k].raised}
            IN  /\ SubSeq(sources', 1, Len(sources)) = sources
                /\ Len(sources') = Len(sources) + Cardinality(done)
                /\ \A k \in done :
                    LET p == Len(sources)
                             + Cardinality({a \in done : a < k}) + 1
                    IN  /\ sources'[p].filename = todo[k].name
                        /\ sources'[p].raw_text = lastRun'.oc[k].text
                        /\ sources'[p].edited_text = sources'[p].raw_text
                        /\ sources'[p].status = "pending"]_vars

\* C15 witness: an OCR run over two files of which the first failed and the
\* second succeeded has left the second file's record and none of the first.
C15_Witness ==
    /\ lastOp = "extract_documents"
    /\ lastRun.key
    /\ Len(lastRun.files) = 2
    /\ DOMAIN lastRun.oc = 1..2
    /\ lastRun.oc[1].raised
    /\ ~lastRun.oc[2].raised
    /\ \E p \in Positions : sources[p].filename = lastRun.files[2].name
    /\ \A p \in Positions : sources[p].filename # lastRun.files[1].name

\* C12: the diagnosis adapter is called, and initial_diagnosis is written,
\* only from a state in which the registry is not empty and every record is
\* confirmed; what the adapter is given is get_combined_text() of that
\* state, which holds the header and the edited text of every record of the
\* registry; the call leaves the registry as it is.
C12_DiagnosisOnlyWhenAllConfirmed ==
    [][(\/ Called("generate_diagnosis")
        \/ initial_diagnosis' # initial_diagnosis
        \/ diagnosis_input' # diagnosis_input)
        => /\ Len(sources) > 0
           /\ PendingPositions = {}
           /\ all_sources_confirmed(sources)
           /\ diagnosis_input' = Some(get_combined_text(sources))
           /\ \A i \in Positions :
                Contains(diagnosis_input'[1], ExpectedFromLabel(sources[i]))
           /\ sources' = sources]_vars

\* C12 witness: the diagnosis has been generated from a registry of two
\* confirmed records, one of them edited.
C12_Witness ==
    /\ lastOp = "generate_diagnosis"
    /\ initial_diagnosis = Some(Report)
    /\ Len(sources) = 2
    /\ \E i \in Positions : sources[i].edited_text \in EditTexts
    /\ diagnosis_input = Some(get_combined_text(sources))

\* C18: a record is created with edited_text equal to raw_text; no step
\* changes the raw_text of a record, and a step changes the edited_text of a
\* record only when it is Confirm & Save (the one caller of
\* update_source_text) on that record's id. Quick confirm, Confirm All, the
\* opening and closing of the review and the discard of another id leave
\* both texts of a record as they are.
C18_TextsChangeOnlyByEdit ==
    [][/\ \A p \in Appended : sources'[p].edited_text = sources'[p].raw_text
       /\ Len(sources') >= Len(sources) =>
            \A i \in Positions :
                /\ sources'[i].raw_text = sources[i].raw_text
                /\ sources'[i].edited_text # sources[i].edited_text
                    => /\ Called("review_confirm_save")
                       /\ review_mode = Some(sources[i].id)
       /\ Len(sources') < Len(sources) =>
            /\ Called("review_discard")
            /\ LET kept == {i \in Positions : review_mode # Some(sources[i].id)}
               IN  /\ Len(sources') = Cardinality(kept)
                   /\ \A r \in 1..Len(sources') :
                        /\ sources'[r].raw_text
                            = sources[NthSmallest(kept, r)].raw_text
                        /\ sources'[r].edited_text
                            = sources[NthSmallest(kept, r)].edited_text]_vars

\* C18 witness: a record was edited in review, its raw_text is still what
\* the extraction produced, and Confirm All has since confirmed another
\* record whose edited_text is still its raw_text.
C18_Witness ==
    /\ lastOp = "bulk_confirm_all"
    /\ \E i, j \in Positions :
        /\ i # j
        /\ sources[i].edited_text \in EditTexts
        /\ sources[i].raw_text = Speech
        /\ sources[j].edited_text = Speech
        /\ sources[j].raw_text = Speech

\* C19: Confirm & Save with the text t in the editor leaves the record under
\* review (the one get_source_by_id returns for review_mode) with
\* edited_text t, the word count of t and status "confirmed", sets
\* review_mode to None and changes no other record.
C19_ConfirmAndSave ==
    [][\A t \in EditTexts \cup {sources[i].edited_text : i \in Positions} :
        (/\ Called("review_confirm_save")
         /\ review_shown(sources, review_mode)
         /\ sources' = confirm_and_save(sources, review_mode[1], t,
                                        Timestamp(now)))
        => /\ review_mode' = None
           /\ Len(sources') = Len(sources)
           /\ get_source_by_id(sources', review_mode[1]) # None
           /\ get_source_by_id(sources', review_mode[1])[1].edited_text = t
           /\ get_source_by_id(sources', review_mode[1])[1].word_count
                = WordCount(t)
           /\ get_source_by_id(sources', review_mode[1])[1].status
                = "confirmed"
           /\ get_source_by_id(sources', review_mode[1])[1].raw_text
                = get_source_by_id(sources, review_mode[1])[1].raw_text
           /\ \A i \in Positions :
                i # FirstIndex(sources, review_mode[1])
                    => sources'[i] = sources[i]]_vars

\* C19 witness: Confirm & Save has closed the review and left a confirmed
\* record with the editor's text and its word count, next to a pending one.
C19_Witness ==
    /\ lastOp = "review_confirm_save"
    /\ review_mode = None
    /\ \E i \in ConfirmedPositions :
        /\ sources[i].edited_text \in EditTexts
        /\ sources[i].word_count = 1
    /\ PendingPositions # {}

C16_FailedChatNotAReply ==
    [][\A user_input \in UserInputs \cup suggested_prompts,
          gpt \in ChatOutcomes :
        (/\ Called("chat_send") \/ Called("suggested_prompt")
         /\ gpt.raised
         /\ chat_history'
                = chat_turn(chat_session, user_input, gpt).chat_history)
        => /\ \A k \in (Len(chat_history) + 1)..Len(chat_history') :
                chat_history'[k].role # "assistant"
           /\ final_diagnosis' = final_diagnosis
           /\ chat_modifications' = chat_modifications]_vars

\* The step is a chat turn: a typed message or a Quick Action.
ChatTurnStep == Called("chat_send") \/ Called("suggested_prompt")

\* C21: once initial_diagnosis is set it never changes: no step changes it,
\* a chat turn least of all, and the generate action does not run while it
\* is set. The step that sets it sets final_diagnosis to the same text.
C21_InitialIsSnapshot ==
    [][/\ (initial_diagnosis # None /\ initial_diagnosis[1] # <<>>)
            => /\ initial_diagnosis' = initial_diagnosis
               /\ ~Called("generate_diagnosis")
       /\ initial_diagnosis' # initial_diagnosis
            => /\ Called("generate_diagnosis")
               /\ final_diagnosis' = initial_diagnosis'
       /\ ChatTurnStep => initial_diagnosis' = initial_diagnosis]_vars

\* C21 witness: a chat turn has replaced the report, the initial diagnosis
\* is still the generated one.
C21_Witness ==
    /\ lastOp = "chat_send"
    /\ initial_diagnosis = Some(Report)
    /\ final_diagnosis # None
    /\ final_diagnosis # initial_diagnosis

\* The section markers of the report template.
TemplateMarkers ==
    {<<"D", "I", "A", "G", "N", "O", "S", "I", "S", ":">>,
     <<"M", "E", "D", "I", "C", "A", "T", "I", "O", "N", "S", ":">>,
     <<"N", "a", "m", "e", ":">>,
     <<"A", "g", "e", ":">>,
     <<"S", "P", "E", "C", "I", "A", "L", " ", "R", "I", "S", "K", "S">>}

\* The reply of the chat turn just made: the last message of the history.
LastReply == chat_history'[Len(chat_history')]

\* C22: on a chat turn final_diagnosis becomes the reply exactly when the
\* reply holds a template marker, and then one entry is appended to
\* chat_modifications; otherwise both stay as they were.
C22_ReportOverwrittenIffMarker ==
    [][ChatTurnStep =>
        /\ LastReply.role = "assistant"
        /\ (\E marker \in TemplateMarkers : Contains(LastReply.content, marker))
            => /\ final_diagnosis' = Some(LastReply.content)
               /\ chat_modifications'
                    = Append(chat_modifications,
                             [timestamp |-> None,
                              modification |-> LastReply.content])
        /\ ~(\E marker \in TemplateMarkers :
                Contains(LastReply.content, marker))
            => /\ final_diagnosis' = final_diagnosis
               /\ chat_modifications' = chat_modifications]_vars

\* C22 witness: of two chat turns one replaced the report and the other,
\* whose reply has no marker, left it.
C22_Witness ==
    /\ lastOp = "chat_send"
    /\ Exchanges(chat_history) = 2
    /\ chat_history[Len(chat_history)].content = <<"o", "k">>
    /\ final_diagnosis = Some(<<"A", "g", "e", ":", " ", "5">>)
    /\ Len(chat_modifications) = 1

\* C23: except for Clear Chat, every step leaves the messages of the
\* history where they are and as they are (the old history is a prefix of
\* the new one); a chat turn appends the doctor's message and then the
\* assistant's.
C23_HistoryAppendOnly ==
    [][/\ ~Called("clear_chat")
            => /\ Len(chat_history') >= Len(chat_history)
               /\ SubSeq(chat_history', 1, Len(chat_history)) = chat_history
       /\ ChatTurnStep
            => /\ Len(chat_history') = Len(chat_history) + 2
               /\ chat_history'[Len(chat_history) + 1].role = "user"
               /\ chat_history'[Len(chat_history) + 2].role = "assistant"]_vars

\* C23 witness: the greeting and two chat turns are in the history.
C23_Witness ==
    /\ lastOp = "chat_send"
    /\ Len(chat_history) = 5
    /\ chat_history[1].content = get_initial_greeting
    /\ chat_history[2].role = "user"
    /\ chat_history[4].role = "user"

\* C28: when final_diagnosis differs from initial_diagnosis,
\* chat_modifications is not empty.
C28_ModifiedReportHasModifications ==
    final_diagnosis # initial_diagnosis => chat_modifications # <<>>

\* C29: ready_for_download holds only when initial_diagnosis and
\* final_diagnosis are both set, and never together with show_chat.
C29_FlagsConsistent ==
    /\ ready_for_download
        => /\ initial_diagnosis # None /\ initial_diagnosis[1] # <<>>
           /\ final_diagnosis # None /\ final_diagnosis[1] # <<>>
    /\ ~(ready_for_download /\ show_chat)

\* C29 witness: the report was finalized from the chat, which is closed.
C29_Witness ==
    /\ lastOp = "generate_final_report"
    /\ ready_for_download
    /\ ~show_chat
    /\ Exchanges(chat_history) > 0

\* C30: a diagnosis call that fails or returns no text gives the handler
\* nothing to store; the generate step leaves the registry as it is and
\* either leaves initial_diagnosis and final_diagnosis unset, with the
\* button still drawn, or sets both to the same text, which is not empty;
\* in every state the two are both unset or both set.
C30_FailedGenerationLeavesUnset ==
    [][/\ \A gpt \in DiagnosisOutcomes :
            (gpt.raised \/ gpt.text = <<>>)
                => generate_diagnosis_from_transcript(gpt)
                        \in {None, Some(<<>>)}
       /\ Called("generate_diagnosis")
            => /\ sources' = sources
               /\ \/ /\ initial_diagnosis' = None
                     /\ final_diagnosis' = None
                     /\ Len(sources') > 0
                     /\ all_sources_confirmed(sources')
                  \/ /\ initial_diagnosis' # None
                     /\ initial_diagnosis'[1] # <<>>
                     /\ final_diagnosis' = initial_diagnosis'
       /\ (initial_diagnosis' = None) <=> (final_diagnosis' = None)
       /\ final_diagnosis' # None => final_diagnosis'[1] # <<>>]_vars

\* C30 witness: a generation was tried and failed; nothing is set and the
\* button is still drawn.
C30_Witness ==
    /\ lastOp = "generate_diagnosis"
    /\ diagnosis_input # None
    /\ initial_diagnosis = None
    /\ final_diagnosis = None
    /\ diagnosis_offered(sources, initial_diagnosis)

\* C24: an OCR run without the API key stops before any call of the OCR
\* adapter: it adds no record and leaves the registry and the rest of the
\* session as they were.
C24_NoKeyNoExtraction ==
    [][(Called("extract_documents") /\ ~lastRun'.key)
        => /\ sources' = sources
           /\ DOMAIN lastRun'.oc = {}
           /\ UNCHANGED <<review_mode, audio_files_ready, report, chat,
                          flags>>]_vars

\* C24 witness: an OCR run without the key has left a registry that holds
\* a record as it was.
C24_Witness ==
    /\ lastOp = "extract_documents"
    /\ lastRun.handler = "ocr"
    /\ ~lastRun.key
    /\ Len(lastRun.files) = 2
    /\ Len(sources) = 1

\* C25: no record of the registry has an empty raw_text.
C25_NoEmptyRawText ==
    \A i \in Positions : sources[i].raw_text # <<>>

\* C26: no two records of the registry have the same filename.
C26_NoDuplicateFilenames ==
    \A i, j \in Positions :
        i # j => sources[i].filename # sources[j].filename

\* C27: when review_mode is not None it is the id of a record of the
\* registry; a step that removes the record under review sets review_mode
\* to None, and the Review button sets it to the id of a listed record.
C27_ReviewModeNamesRecord ==
    [][/\ review_mode' # None
            => get_source_by_id(sources', review_mode'[1]) # None
       /\ (review_mode # None
           /\ get_source_by_id(sources', review_mode[1]) = None)
            => review_mode' = None
       /\ Called("open_review_modal")
            => \E i \in Positions : review_mode' = Some(sources[i].id)]_vars

\* C27 witness: the record under review was discarded; review_mode is None
\* and another record is still listed.
C27_Witness ==
    /\ lastOp = "review_discard"
    /\ review_mode = None
    /\ Len(sources) = 1

====
